---- MODULE Spec2Model ----
(***************************************************************************)
(* Walk-forward period generation and period slicing of                    *)
(* mpm214/Portfolio_Allocation.                                            *)
(*                                                                         *)
(*   daily  variant: src/CODE/Price_Movement.py                            *)
(*                   generate_periods / slice_data_by_period               *)
(*   hourly variant: src/scripts/walk_through_validation.py                *)
(*                   PeriodGenerator.generate_periods /                    *)
(*                   PeriodGenerator.slice_data_by_period                  *)
(*                                                                         *)
(* A timestamp is the tuple <<year, month, day, hour>> of a pandas         *)
(* Timestamp; calendar offsets act on the fields the way pd.DateOffset     *)
(* and datetime.timedelta do.                                              *)
(***************************************************************************)
EXTENDS Integers, Sequences, FiniteSets, TLC

VARIABLES variant, start_date, end_date, data, current_start, periods, pc,
          calls, slices, all_slices, in_tz, col, err, consumer,
          psar, recovery, ratios, assign, hourly, shift

vars == <<variant, start_date, end_date, data, current_start, periods, pc,
          calls, slices, all_slices, in_tz, col, err, consumer,
          psar, recovery, ratios, assign, hourly, shift>>

\* the state of the indicator and statistic functions, which the period
\* generation and the slicing never touch
kernels == <<psar, recovery, ratios, assign, hourly, shift>>

\* the inputs of a run, which no step assigns
inputs == <<variant, start_date, end_date, data, in_tz, col>>

----------------------------------------------------------------------------
(* Bounds of the model                                                     *)

\* end_date ranges up to start_date + 1 year + MaxEndMonths months
MaxEndMonths == 2
\* rows of the sliced table
MaxRows == 2
\* distinct strategies of the trades table
MaxStrategies == 2
\* length of the series given to calculate_recovery_time
MaxSeries == 4
\* rows of the price frame given to calculate_adx_psar
MaxBars == 3
\* rows of the frame given to calculate_ratios
MaxTrades == 3
\* trades of the strategy given to HourlyPnLCalculator
MaxPositions == 2
\* cap on the length of the list built by one call; never reached by the code
MaxPeriods == MaxEndMonths + 20

\* walk_forward_validation regenerates the periods twice: x table, y table
SliceCalls == 2

Variants == {"daily", "hourly"}
StartYears == {2019, 2020}
StartMonths == {1, 2, 12}
StartDays == {1, 29, 31}
StartHours == {0, 5}

----------------------------------------------------------------------------
(* Calendar arithmetic on <<year, month, day, hour>>                       *)

DaysInMonthThirty(y, m) == 30
IsLeap(y) == (y % 4 = 0 /\ y % 100 # 0) \/ y % 400 = 0

DaysInMonth(y, m) ==
    IF m = 2 THEN (IF IsLeap(y) THEN 29 ELSE 28)
    ELSE IF m \in {4, 6, 9, 11} THEN 30 ELSE 31

Min(a, b) == IF a <= b THEN a ELSE b

\* chronological order of two timestamps (Timestamp.__le__, __gt__, ...)
Key(t) == ((t[1] * 12 + (t[2] - 1)) * 31 + (t[3] - 1)) * 24 + t[4]

\* t + pd.DateOffset(years=1): same month, day clamped to the month's length
AddYears(t) == <<t[1] + 1, t[2], Min(t[3], DaysInMonth(t[1] + 1, t[2])), t[4]>>

\* t + pd.DateOffset(months=1): next month, day clamped to the month's length
AddMonths(t) ==
    LET y == IF t[2] = 12 THEN t[1] + 1 ELSE t[1]
        m == IF t[2] = 12 THEN 1 ELSE t[2] + 1
    IN  <<y, m, Min(t[3], DaysInMonth(y, m)), t[4]>>

\* t - timedelta(days=1)
SubDay(t) ==
    IF t[3] > 1 THEN <<t[1], t[2], t[3] - 1, t[4]>>
    ELSE IF t[2] > 1 THEN <<t[1], t[2] - 1, DaysInMonth(t[1], t[2] - 1), t[4]>>
    ELSE <<t[1] - 1, 12, 31, t[4]>>

\* t + timedelta(days=1)
AddDay(t) ==
    IF t[3] < DaysInMonth(t[1], t[2]) THEN <<t[1], t[2], t[3] + 1, t[4]>>
    ELSE IF t[2] < 12 THEN <<t[1], t[2] + 1, 1, t[4]>>
    ELSE <<t[1] + 1, 1, 1, t[4]>>

\* t - timedelta(hours=1)
SubHour(t) ==
    IF t[4] > 0 THEN <<t[1], t[2], t[3], t[4] - 1>>
    ELSE LET p == SubDay(t) IN <<p[1], p[2], p[3], 23>>

\* t + timedelta(hours=1)
AddHour(t) ==
    IF t[4] < 23 THEN <<t[1], t[2], t[3], t[4] + 1>>
    ELSE LET n == AddDay(t) IN <<n[1], n[2], n[3], 0>>

\* t.replace(hour=0, minute=0)
FloorDay(t) == <<t[1], t[2], t[3], 0>>

RECURSIVE AddDaysN(_, _)
AddDaysN(t, n) == IF n = 0 THEN t ELSE AddDaysN(AddDay(t), n - 1)

RECURSIVE AddMonthsN(_, _)
AddMonthsN(t, n) == IF n = 0 THEN t ELSE AddMonthsN(AddMonths(t), n - 1)

----------------------------------------------------------------------------
(* The body of the while loop of generate_periods                          *)

TrainStartFloored(cur) == FloorDay(cur)
\* train_start = current_start
TrainStart(cur) == cur

\* train_end = train_start + DateOffset(years=1) - one unit
TrainEnd(v, ts) ==
    IF v = "daily" THEN SubDay(AddYears(ts)) ELSE SubHour(AddYears(ts))

TestStartFloored(v, te) ==
    FloorDay(IF v = "daily" THEN AddDay(te) ELSE AddHour(te))
\* test_start = train_end + one unit (hourly: .replace(hour=0, minute=0))
TestStart(v, te) ==
    IF v = "daily" THEN AddDay(te) ELSE FloorDay(AddHour(te))

TestEndNoUnit(v, tst) == AddMonths(tst)
\* test_end = test_start + DateOffset(months=1) - one unit
TestEnd(v, tst) ==
    IF v = "daily" THEN SubDay(AddMonths(tst)) ELSE SubHour(AddMonths(tst))

\* the dict appended for the cursor cur; each local is bound to its value
\* before the next statement uses it
Candidate(v, cur) ==
    CHOOSE p \in UNION { UNION { {
        [train_start |-> ts, train_end |-> te,
         test_start |-> tst, test_end |-> TestEnd(v, tst)] :
            tst \in {TestStart(v, te)} } :
            te \in {TrainEnd(v, ts)} } :
            ts \in {TrainStart(cur)} } : TRUE

InLoopYearAhead(cur, final) == Key(AddYears(AddMonths(cur))) <= Key(final)
\* while current_start <= final_end
InLoop(cur, final) == Key(cur) <= Key(final)

OverrunInclusive(p, final) == Key(p.test_end) >= Key(final)
OverrunOnTestStart(p, final) == Key(p.test_start) > Key(final)
OverrunNever(p, final) == FALSE
\* if test_end > final_end: break
Overrun(p, final) == Key(p.test_end) > Key(final)

NextStartMonthField(cur) == <<cur[1], 1, cur[3], cur[4]>>
NextStartThirtyDays(cur) == AddDaysN(cur, 30)
\* current_start += pd.DateOffset(months=1)
NextStart(cur) == AddMonths(cur)

CursorResumed(sd, prev) == prev
\* current_start = self.start_date (a fresh local on every call)
CursorAtCall(sd, prev) == sd

----------------------------------------------------------------------------
(* Timezone awareness: "naive" or "utc"                                    *)

\* the awareness of a stored boundary: pd.to_datetime(x, utc=True) makes
\* it UTC-aware (hourly), pd.to_datetime(x) keeps the argument's (daily)
BoundTz(v, z) == IF v = "daily" THEN z ELSE "utc"

ComparableAlways(a, b) == TRUE
\* ordering two Timestamps raises TypeError unless both are naive or both
\* are aware
Comparable(a, b) == a = b

ColumnErrorKeyOnly(c, z) == IF c = "missing" THEN "KeyError" ELSE "none"
\* data[date_col] >= bound: KeyError when the column is absent, TypeError
\* when the column's awareness differs from the bound's
ColumnError(c, z) ==
    IF c = "missing" THEN "KeyError"
    ELSE IF c # z THEN "TypeError" ELSE "none"

----------------------------------------------------------------------------
(* Slicing                                                                 *)

InWindowNoUpper(t, lo, hi) == Key(lo) <= Key(t)
InWindowExclusive(t, lo, hi) == Key(t) >= Key(lo) /\ Key(t) < Key(hi)
\* (data[date_col] >= lo) & (data[date_col] <= hi)
InWindow(t, lo, hi) == Key(t) >= Key(lo) /\ Key(t) <= Key(hi)

FilterSorted(tbl, lo, hi) ==
    LET keep(r) == InWindow(r.Date, lo, hi)
        s == SelectSeq(tbl, keep)
    IN  CHOOSE q \in [1..Len(s) -> {s[i] : i \in 1..Len(s)}] :
            /\ \A i \in 1..Len(s) : \E j \in 1..Len(s) : q[j] = s[i]
            /\ \A i, j \in 1..Len(s) :
                  i < j => Key(q[i].Date) <= Key(q[j].Date)
\* data[mask]: the rows of the table whose Date is in the window, in order
Filter(tbl, lo, hi) ==
    LET keep(r) == InWindow(r.Date, lo, hi) IN SelectSeq(tbl, keep)

\* the (train_data, test_data) pair of one period
SlicePair(tbl, p) ==
    [train |-> Filter(tbl, p.train_start, p.train_end),
     test  |-> Filter(tbl, p.test_start, p.test_end)]

TableAfterMaskFiltered(tbl, kept) == kept
\* data[mask] builds a new frame: the indexed table keeps its rows
TableAfterMask(tbl, kept) == tbl

PeriodAtReversed(ps, i) == ps[Len(ps) + 1 - i]
\* for period in periods: the i-th iteration takes the i-th period
PeriodAt(ps, i) == ps[i]

----------------------------------------------------------------------------
(* Inputs                                                                  *)

Starts ==
    {<<y, m, d, h>> : y \in StartYears, m \in StartMonths,
                      d \in StartDays, h \in StartHours}

ValidStarts == {t \in Starts : t[3] <= DaysInMonth(t[1], t[2])}

\* the starts for which tables with rows are sliced
TableStarts == {t \in ValidStarts : t[1] = 2019 /\ t[2] <= 2}

\* the starts for which ill-typed inputs are run
PlainStarts == {t \in ValidStarts : t[3] = 1}

\* end dates: one before start, start + 1 year, and the dates around
\* start + 1 year + k months
Ends(s) ==
    LET base(k) == AddMonthsN(AddYears(s), k)
    IN  UNION {{base(k), SubHour(base(k)), SubDay(base(k)),
                SubHour(SubDay(base(k)))} : k \in 1..MaxEndMonths}
        \cup {SubDay(s), AddYears(s)}

\* timestamps of table rows: the upper bounds of the first candidate
\* period, the hour after its train_end and the first instant after its
\* test window
RowTimes(v, s) ==
    LET p == Candidate(v, s)
    IN  {p.train_end, AddHour(p.train_end), p.test_end,
         IF v = "daily" THEN AddDay(p.test_end) ELSE AddHour(p.test_end)}

\* the sequences of at most n distinct elements of S
RECURSIVE SeqsUpTo(_, _)
SeqsUpTo(S, n) ==
    IF n = 0 THEN {<<>>}
    ELSE LET prev == SeqsUpTo(S, n - 1)
         IN  prev \cup {Append(q, x) :
                          q \in {r \in prev : Len(r) = n - 1},
                          x \in S}

\* no two rows of q carry the same timestamp
Keyed(q) == \A i, j \in 1..Len(q) : q[i] = q[j] => i = j

\* a table is a sequence of rows keyed by their timestamp, in any order;
\* idx is the row's index label
Tables(v, s) ==
    {[i \in 1..Len(q) |-> [idx |-> i, Date |-> q[i]]] :
        q \in {r \in SeqsUpTo(RowTimes(v, s), MaxRows) : Keyed(r)}}

----------------------------------------------------------------------------
(* State machine                                                           *)

\* the awareness of the stored boundaries
StartTz == BoundTz(variant, in_tz[1])
EndTz == BoundTz(variant, in_tz[2])

\* the resting value of a function that is not run
Off == [stage |-> "off"]

KernelsOff ==
    /\ psar = Off
    /\ recovery = Off
    /\ ratios = Off
    /\ assign = Off
    /\ hourly = Off
    /\ shift = Off

\* nothing has run yet
Fresh ==
    /\ current_start = start_date
    /\ periods = <<>>
    /\ pc = "idle"
    /\ calls = <<>>
    /\ slices = <<>>
    /\ all_slices = <<>>
    /\ err = "none"
    /\ consumer = [state |-> "pending", rows |-> 0, exc |-> "none",
                   strategies |-> 0]

\* naive boundaries and a table whose column matches the period bounds
InitTyped ==
    /\ variant \in Variants
    /\ start_date \in ValidStarts
    /\ end_date \in Ends(start_date)
    /\ data \in IF start_date \in TableStarts
                 THEN Tables(variant, start_date) ELSE {<<>>}
    /\ in_tz = <<"naive", "naive">>
    /\ col = StartTz

\* boundaries of which at least one is UTC-aware
InitAwareBounds ==
    /\ variant \in Variants
    /\ start_date \in PlainStarts
    /\ end_date \in Ends(start_date)
    /\ data = <<>>
    /\ in_tz \in {<<"naive", "utc">>, <<"utc", "naive">>, <<"utc", "utc">>}
    /\ col = StartTz

\* a table without the column, or whose column differs in awareness from
\* the period bounds
InitBadColumn ==
    /\ variant \in Variants
    /\ start_date \in PlainStarts
    /\ end_date \in Ends(start_date)
    /\ data \in {t \in Tables(variant, start_date) : Len(t) <= 1}
    /\ in_tz = <<"naive", "naive">>
    /\ col \in {"missing", "naive", "utc"} \ {StartTz}

\* generate_periods("2021-06-01", "2024-01-01") and
\* PeriodGenerator('2021-06-01 00:00', '2023-12-31 23:00')
InitScenario ==
    /\ \/ /\ variant = "daily"
          /\ start_date = <<2021, 6, 1, 0>>
          /\ end_date = <<2024, 1, 1, 0>>
       \/ /\ variant = "hourly"
          /\ start_date = <<2021, 6, 1, 0>>
          /\ end_date = <<2023, 12, 31, 23>>
    /\ data = <<>>
    /\ in_tz = <<"naive", "naive">>
    /\ col = StartTz

Init ==
    /\ InitTyped \/ InitAwareBounds \/ InitBadColumn \/ InitScenario
    /\ Fresh
    /\ KernelsOff

\* the period generation at rest, while an indicator or statistic runs
PeriodsOff ==
    /\ variant = "daily"
    /\ start_date = <<2021, 6, 1, 0>>
    /\ end_date = <<2024, 1, 1, 0>>
    /\ data = <<>>
    /\ in_tz = <<"naive", "naive">>
    /\ col = "naive"
    /\ Fresh

periodState == <<variant, start_date, end_date, data, current_start,
                 periods, pc, calls, slices, all_slices, in_tz, col, err,
                 consumer>>

\* entry of generate_periods: periods = [], current_start = start_date
Call ==
    /\ pc = "idle"
    /\ Len(calls) < SliceCalls
    /\ current_start' = CursorAtCall(start_date, current_start)
    /\ periods' = <<>>
    /\ slices' = <<>>
    /\ pc' = "loop"
    /\ UNCHANGED <<kernels, inputs, calls, all_slices, err, consumer>>

\* the while condition compares a naive with an aware Timestamp: TypeError
LoopRaise ==
    /\ pc = "loop"
    /\ ~Comparable(StartTz, EndTz)
    /\ pc' = "error"
    /\ err' = "TypeError"
    /\ UNCHANGED <<kernels, inputs, current_start, periods, calls, slices,
                   all_slices, consumer>>

\* one iteration that appends a period and advances the cursor
LoopEmit ==
    /\ pc = "loop"
    /\ Comparable(StartTz, EndTz)
    /\ InLoop(current_start, end_date)
    /\ ~Overrun(Candidate(variant, current_start), end_date)
    /\ Len(periods) < MaxPeriods
    /\ periods' = Append(periods, Candidate(variant, current_start))
    /\ current_start' = NextStart(current_start)
    /\ UNCHANGED <<kernels, inputs, pc, calls, slices, all_slices, err, consumer>>

\* the iteration whose test window overruns: break, return periods
LoopBreak ==
    /\ pc = "loop"
    /\ Comparable(StartTz, EndTz)
    /\ InLoop(current_start, end_date)
    /\ Overrun(Candidate(variant, current_start), end_date)
    /\ calls' = Append(calls, periods)
    /\ pc' = "slice"
    /\ UNCHANGED <<kernels, inputs, current_start, periods, slices, all_slices,
                   err, consumer>>

\* the while condition fails: return periods
LoopExit ==
    /\ pc = "loop"
    /\ Comparable(StartTz, EndTz)
    /\ ~InLoop(current_start, end_date)
    /\ calls' = Append(calls, periods)
    /\ pc' = "slice"
    /\ UNCHANGED <<kernels, inputs, current_start, periods, slices, all_slices,
                   err, consumer>>

\* one iteration of "for period in periods" of slice_data_by_period
SliceStep ==
    /\ pc = "slice"
    /\ Len(slices) < Len(periods)
    /\ ColumnError(col, StartTz) = "none"
    /\ slices' = Append(slices,
                        SlicePair(data, PeriodAt(periods, Len(slices) + 1)))
    /\ data' = TableAfterMask(data,
                   SlicePair(data, PeriodAt(periods, Len(slices) + 1)).train)
    /\ UNCHANGED <<kernels, variant, start_date, end_date, in_tz, col,
                   current_start, periods, pc, calls, all_slices, err,
                   consumer>>

\* the mask of an iteration raises: column absent or awareness mismatch
SliceRaise ==
    /\ pc = "slice"
    /\ Len(slices) < Len(periods)
    /\ ColumnError(col, StartTz) # "none"
    /\ pc' = "error"
    /\ err' = ColumnError(col, StartTz)
    /\ UNCHANGED <<kernels, inputs, current_start, periods, calls, slices,
                   all_slices, consumer>>

\* return slices
SliceReturn ==
    /\ pc = "slice"
    /\ Len(slices) = Len(periods)
    /\ all_slices' = Append(all_slices, slices)
    /\ pc' = "idle"
    /\ UNCHANGED <<kernels, inputs, current_start, periods, calls, slices, err,
                   consumer>>

\* StandardScaler.fit_transform / transform raise ValueError on zero rows
ScalerRaises(pair) == Len(pair.train) = 0 \/ Len(pair.test) = 0

RECURSIVE TestRows(_)
\* the rows of the concatenated per-period prediction frames
TestRows(sl) ==
    IF sl = <<>> THEN 0 ELSE Len(sl[1].test) + TestRows(Tail(sl))

\* walk_forward_validation after the two slicings: the loop over
\* zip(x_slices, y_slices) and pd.concat(predictions), which raises
\* ValueError on an empty list
WalkForwardTail ==
    /\ variant = "hourly"
    /\ pc = "idle"
    /\ Len(all_slices) = SliceCalls
    /\ consumer.state = "pending"
    /\ consumer' =
          IF all_slices[1] = <<>>
             \/ \E i \in 1..Len(all_slices[1]) : ScalerRaises(all_slices[1][i])
          THEN [state |-> "raised", rows |-> 0, exc |-> "ValueError",
                strategies |-> 1]
          ELSE [state |-> "returned", rows |-> TestRows(all_slices[1]),
                exc |-> "none", strategies |-> 1]
    /\ pc' = "done"
    /\ UNCHANGED <<kernels, inputs, current_start, periods, calls, slices,
                   all_slices, err>>

\* calculate_strategy_ratios(trades_df, ..., periods) for a trades table of
\* n strategies: the arguments of zip are evaluated before the loop binds
\* strategy, so '"EURUSD" in strategy' raises UnboundLocalError
StrategyRatios ==
    /\ variant = "daily"
    /\ pc = "idle"
    /\ Len(all_slices) = SliceCalls
    /\ consumer.state = "pending"
    /\ \E n \in 0..MaxStrategies :
          consumer' = [state |-> "raised", rows |-> 0,
                       exc |-> "UnboundLocalError", strategies |-> n]
    /\ pc' = "done"
    /\ UNCHANGED <<kernels, inputs, current_start, periods, calls, slices,
                   all_slices, err>>

Next ==
    \/ Call
    \/ LoopRaise
    \/ LoopEmit
    \/ LoopBreak
    \/ LoopExit
    \/ SliceStep
    \/ SliceRaise
    \/ SliceReturn
    \/ WalkForwardTail
    \/ StrategyRatios

Spec == Init /\ [][Next]_vars

\* Init with the empty table: generate_periods never reads the table
InitGen == Init /\ data = <<>>

\* the interpreter runs the statements of a started call one after another
FairSpec == InitGen /\ [][Next]_vars /\ WF_vars(Next)

----------------------------------------------------------------------------
(* Properties                                                              *)

\* every period emitted so far, by the running call or by a finished one
Emitted ==
    {periods[i] : i \in 1..Len(periods)}
    \cup UNION {{calls[c][i] : i \in 1..Len(calls[c])} : c \in 1..Len(calls)}

Returned == Len(calls) >= 1

\* C1: every emitted period, in both variants and for every start, satisfies
\* train_start <= train_end < test_start <= test_end.
C1_PeriodOrdered ==
    \A p \in Emitted :
        /\ Key(p.train_start) <= Key(p.train_end)
        /\ Key(p.train_end) < Key(p.test_start)
        /\ Key(p.test_start) <= Key(p.test_end)

\* C2: every emitted period lies within [start, end]: train_start >= start
\* and test_end <= end.
C2_WithinGlobalRange ==
    \A p \in Emitted :
        /\ Key(start_date) <= Key(p.train_start)
        /\ Key(p.test_end) <= Key(end_date)

\* two periods were emitted and the last test window ends exactly at end
C2_Witness ==
    /\ Len(periods) >= 2
    /\ periods[Len(periods)].test_end = end_date

\* C3: the test windows of any two distinct periods of one call do not
\* overlap.
C3_TestWindowsDisjoint ==
    \A i, j \in 1..Len(periods) :
        i < j => Key(periods[i].test_end) < Key(periods[j].test_start)

\* start + one calendar year + one calendar month
StartPlusYearMonth == AddMonths(AddYears(start_date))

\* C4 as stated: no period whenever end < start + 1 year + 1 month.
C4_EmptyBelowYearMonth ==
    Key(end_date) < Key(StartPlusYearMonth) => Emitted = {}

\* the test_end of the first candidate: start + 1 year (hourly: floored to
\* midnight) + 1 month - 1 unit
FirstTestEnd ==
    IF variant = "daily" THEN SubDay(AddMonths(AddYears(start_date)))
    ELSE SubHour(AddMonths(FloorDay(AddYears(start_date))))

\* C4 amended: no period whenever end is earlier than start + 1 year
\* (hourly: floored to midnight) + 1 month - 1 unit.
C4_EmptyBelowFirstTestEnd ==
    Key(end_date) < Key(FirstTestEnd) => Emitted = {}

\* a call returned the empty list for an end less than a day short of the
\* first test window's end
C4_Witness ==
    /\ Returned
    /\ calls[1] = <<>>
    /\ Key(end_date) < Key(FirstTestEnd)
    /\ Key(AddDay(end_date)) >= Key(FirstTestEnd)

C6_MonthlyStep ==
    \A i \in 1..(Len(periods) - 1) :
        /\ periods[i + 1].train_start = AddMonths(periods[i].train_start)
        /\ Key(periods[i].train_start) <= Key(periods[i + 1].train_start)

\* two periods were emitted and the month step clamped the day of month
C6_Witness ==
    /\ Len(periods) >= 2
    /\ periods[1].train_start[3] = 31
    /\ periods[2].train_start[3] < 31

\* t minus one unit of the variant: a day (daily) or an hour (hourly)
SubUnit(t) == IF variant = "daily" THEN SubDay(t) ELSE SubHour(t)

\* C7: every emitted period has the full spans train_end = train_start +
\* 1 year - 1 unit and test_end = test_start + 1 month - 1 unit.
C7_FullSpans ==
    \A p \in Emitted :
        /\ p.train_end = SubUnit(AddYears(p.train_start))
        /\ p.test_end = SubUnit(AddMonths(p.test_start))

\* the call returned and its last period ends strictly before end
C7_Witness ==
    /\ pc = "slice"
    /\ Len(periods) >= 1
    /\ Key(periods[Len(periods)].test_end) < Key(end_date)

\* C8: every call of generate_periods terminates (by returning or by
\* raising on incomparable boundaries), and the cursor strictly
\* advances on every iteration that stays in the loop.
C8_Terminates ==
    /\ (pc = "loop") ~> (pc \in {"slice", "error"})
    /\ [][(pc = "loop" /\ pc' = "loop") =>
             Key(current_start') > Key(current_start)]_vars

\* a call returned after the cursor advanced twice
C8_Witness ==
    /\ pc = "slice"
    /\ Len(periods) >= 2

\* C9: successive calls return identical sequences, and no step changes
\* the stored start_date and end_date.
C9_Regenerated ==
    /\ [](\A c \in 1..Len(calls) : calls[c] = calls[1])
    /\ [][start_date' = start_date /\ end_date' = end_date]_vars

\* the second regeneration returned, with at least two periods
C9_Witness ==
    /\ Len(calls) >= 2
    /\ Len(calls[2]) >= 2

\* every (period, slice pair) built so far
Sliced ==
    {<<periods[i], slices[i]>> : i \in 1..Len(slices)}
    \cup UNION {{<<calls[c][i], all_slices[c][i]>> :
                    i \in 1..Len(all_slices[c])} : c \in 1..Len(all_slices)}

\* the rows of sub are rows of the table, each once, and are exactly the
\* rows with lo <= Date <= hi
ExactlyRowsIn(sub, lo, hi) ==
    /\ \A n \in 1..Len(sub) : \E j \in 1..Len(data) : sub[n] = data[j]
    /\ \A n, k \in 1..Len(sub) : sub[n] = sub[k] => n = k
    /\ \A j \in 1..Len(data) :
          (\E n \in 1..Len(sub) : sub[n] = data[j])
              <=> (Key(lo) <= Key(data[j].Date) /\ Key(data[j].Date) <= Key(hi))

\* C10: for every period the train subset is exactly the rows with
\* train_start <= t <= train_end and the test subset exactly the rows with
\* test_start <= t <= test_end.
C10_SliceExact ==
    \A ps \in Sliced :
        /\ ExactlyRowsIn(ps[2].train, ps[1].train_start, ps[1].train_end)
        /\ ExactlyRowsIn(ps[2].test, ps[1].test_start, ps[1].test_end)

\* a period was sliced with one row on the upper train bound and one row
\* on the upper test bound
C10_Witness ==
    \E i \in 1..Len(slices) :
        /\ Len(slices[i].train) = 1
        /\ slices[i].train[1].Date = periods[i].train_end
        /\ Len(slices[i].test) = 1
        /\ slices[i].test[1].Date = periods[i].test_end

\* the rows of a sequence
Rows(sub) == {sub[n] : n \in 1..Len(sub)}

\* the rows in the train or test subset of some pair of one slicing
UnionOf(sl) == UNION {Rows(sl[i].train) \cup Rows(sl[i].test) : i \in 1..Len(sl)}

\* the rows of the table with start_date <= Date <= end_date
InGlobalRange ==
    {r \in Rows(data) :
        Key(start_date) <= Key(r.Date) /\ Key(r.Date) <= Key(end_date)}

\* C11 as stated: the union of the train and test subsets over all periods
\* of a slicing is exactly the rows with start <= timestamp <= end.
C11_UnionIsGlobalRange ==
    \A c \in 1..Len(all_slices) : UnionOf(all_slices[c]) = InGlobalRange

\* C11 amended: the union of the train and test subsets over all periods of
\* a slicing is contained in the rows with start <= timestamp <= end, and
\* holds no row later than the last emitted test_end (no row at all when no
\* period is emitted).
C11_UnionWithinGlobalRange ==
    \A c \in 1..Len(all_slices) :
        /\ UnionOf(all_slices[c]) \subseteq InGlobalRange
        /\ \A r \in UnionOf(all_slices[c]) :
              /\ calls[c] # <<>>
              /\ Key(r.Date) <= Key(calls[c][Len(calls[c])].test_end)

\* a slicing returned with a row in some subset and a row of the global
\* range, after the last test window, in no subset
C11_Witness ==
    /\ Len(all_slices) >= 1
    /\ UnionOf(all_slices[1]) # {}
    /\ InGlobalRange \ UnionOf(all_slices[1]) # {}

\* C16 as stated: in the daily variant every emitted test_start is at
\* 00:00 and equals train_end + 1 day, for every start.
C16_DailyTestStartMidnight ==
    variant = "daily" =>
        \A p \in Emitted :
            /\ p.test_start[4] = 0
            /\ p.test_start = AddDay(p.train_end)

\* C16 amended: in the daily variant every emitted test_start equals
\* train_end + 1 day and keeps the time of day of the start.
C16_DailyTestStartKeepsTime ==
    variant = "daily" =>
        \A p \in Emitted :
            /\ p.test_start[4] = start_date[4]
            /\ p.test_start = AddDay(p.train_end)

\* the daily variant emitted a period for a start with a time of day
C16_Witness ==
    /\ variant = "daily"
    /\ start_date[4] # 0
    /\ Len(periods) >= 1

\* C17: a slicing yields one (train, test) pair per period, in the order of
\* the periods, and a window without rows yields empty subsets: it is
\* neither skipped nor an error.
C17_PairPerPeriod ==
    /\ \A c \in 1..Len(all_slices) :
          /\ Len(all_slices[c]) = Len(calls[c])
          /\ \A i \in 1..Len(calls[c]) :
                all_slices[c][i] = SlicePair(data, calls[c][i])
    /\ \A i \in 1..Len(slices) :
          /\ i <= Len(periods)
          /\ slices[i] = SlicePair(data, periods[i])
    /\ (pc = "error" /\ calls # <<>>) => col # StartTz

\* a slicing of a non-empty table returned two pairs with different
\* contents, one of them with both subsets empty
C17_Witness ==
    /\ Len(all_slices) >= 1
    /\ Len(all_slices[1]) >= 2
    /\ data # <<>>
    /\ all_slices[1][1] # all_slices[1][2]
    /\ \E i \in 1..Len(all_slices[1]) :
          all_slices[1][i] = [train |-> <<>>, test |-> <<>>]

\* C18: the rows of each subset keep the relative order they have in the
\* table, also when the table is not sorted by timestamp.
C18_OrderKept ==
    \A ps \in Sliced :
        \A sub \in {ps[2].train, ps[2].test} :
            \A n, k \in 1..Len(sub) : n < k => sub[n].idx < sub[k].idx

\* a subset holds two rows whose timestamps decrease
C18_Witness ==
    \E i \in 1..Len(slices) :
        /\ Len(slices[i].train) = 2
        /\ Key(slices[i].train[1].Date) > Key(slices[i].train[2].Date)

\* the table lacks the column, or the column's awareness differs from the
\* period bounds'
BadColumn == col = "missing" \/ col # StartTz

\* C12: slicing by a period fails with an error, and yields no subset, when
\* the timestamp column is absent from the table or differs in
\* timezone-awareness from the period bounds.
C12_BadColumnFails ==
    /\ [](BadColumn =>
            /\ slices = <<>>
            /\ \A c \in 1..Len(all_slices) : all_slices[c] = <<>>)
    /\ [][(BadColumn /\ pc = "slice" /\ Len(periods) >= 1) =>
             /\ pc' = "error"
             /\ err' = IF col = "missing" THEN "KeyError" ELSE "TypeError"]_vars

\* the slicing of a naive column by the UTC-aware bounds of PeriodGenerator
\* ended in an error
C12_Witness ==
    /\ variant = "hourly"
    /\ col = "naive"
    /\ Len(periods) >= 1
    /\ pc = "error"
    /\ err = "TypeError"

\* one boundary is naive and the other aware
MixedBounds == in_tz[1] # in_tz[2]

\* C13 as stated: generation given one naive and one aware boundary raises
\* an error and emits no periods.
C13_MixedBoundsRaise ==
    MixedBounds =>
        /\ Emitted = {}
        /\ pc \in {"idle", "loop", "error"}

\* C13 amended: the daily generate_periods given one naive and one aware
\* boundary raises TypeError at its first comparison and emits no periods;
\* PeriodGenerator converts both boundaries to UTC and raises nothing.
C13_DailyMixedBoundsRaise ==
    /\ []((MixedBounds /\ variant = "daily") =>
            /\ Emitted = {}
            /\ pc \in {"idle", "loop", "error"})
    /\ [][(MixedBounds /\ variant = "daily" /\ pc = "loop") =>
             (pc' = "error" /\ err' = "TypeError")]_vars
    /\ []((MixedBounds /\ variant = "hourly") => pc # "error")

\* the daily generation of mixed boundaries raised
C13_Witness ==
    /\ MixedBounds
    /\ variant = "daily"
    /\ pc = "error"
    /\ err = "TypeError"

\* C14: for an empty period sequence walk_forward_validation and
\* calculate_strategy_ratios both return an empty result and do not raise.
C14_EmptyPeriodsEmptyResult ==
    (consumer.state # "pending" /\ calls[1] = <<>>) =>
        /\ consumer.state = "returned"
        /\ consumer.rows = 0

\* C15: calculate_strategy_ratios returns one row per (strategy, period)
\* pair: S * P rows for S strategies and P periods.
C15_RowPerStrategyPeriod ==
    (variant = "daily" /\ consumer.state # "pending") =>
        /\ consumer.state = "returned"
        /\ consumer.rows = consumer.strategies * Len(calls[1])

\* the run generate_periods("2021-06-01", "2024-01-01")
DailyScenario ==
    /\ variant = "daily"
    /\ start_date = <<2021, 6, 1, 0>>
    /\ end_date = <<2024, 1, 1, 0>>

\* C19: generate_periods("2021-06-01", "2024-01-01") emits first the period
\* train 2021-06-01..2022-05-31, test 2022-06-01..2022-06-30, second the
\* period train 2021-07-01..2022-06-30, test 2022-07-01..2022-07-31, last
\* the period with test 2023-12-01..2023-12-31, and discards the next
\* candidate, whose test_end is 2024-01-31.
C19_DailyScenario ==
    DailyScenario =>
        /\ \A c \in 1..Len(calls) :
              /\ Len(calls[c]) >= 2
              /\ calls[c][1] = [train_start |-> <<2021, 6, 1, 0>>,
                                train_end |-> <<2022, 5, 31, 0>>,
                                test_start |-> <<2022, 6, 1, 0>>,
                                test_end |-> <<2022, 6, 30, 0>>]
              /\ calls[c][2] = [train_start |-> <<2021, 7, 1, 0>>,
                                train_end |-> <<2022, 6, 30, 0>>,
                                test_start |-> <<2022, 7, 1, 0>>,
                                test_end |-> <<2022, 7, 31, 0>>]
              /\ calls[c][Len(calls[c])].test_start = <<2023, 12, 1, 0>>
              /\ calls[c][Len(calls[c])].test_end = <<2023, 12, 31, 0>>
        /\ pc = "slice" =>
              Candidate(variant, current_start).test_end = <<2024, 1, 31, 0>>
        /\ \A p \in Emitted : p.test_end # <<2024, 1, 31, 0>>

\* the scenario's call returned its nineteen periods
C19_Witness ==
    /\ DailyScenario
    /\ Returned
    /\ Len(calls[1]) = 19

\* the run PeriodGenerator('2021-06-01 00:00', '2023-12-31 23:00')
HourlyScenario ==
    /\ variant = "hourly"
    /\ start_date = <<2021, 6, 1, 0>>
    /\ end_date = <<2023, 12, 31, 23>>

\* C20: PeriodGenerator('2021-06-01 00:00', '2023-12-31 23:00') emits
\* periods whose train_end is exactly one hour before test_start, and emits
\* the period whose test window ends at 2023-12-31 23:00.
C20_HourlyScenario ==
    HourlyScenario =>
        /\ \A p \in Emitted : AddHour(p.train_end) = p.test_start
        /\ \A c \in 1..Len(calls) :
              \E i \in 1..Len(calls[c]) :
                  calls[c][i].test_end = <<2023, 12, 31, 23>>

\* the scenario's call returned with the last test window ending at end
C20_Witness ==
    /\ HourlyScenario
    /\ Returned
    /\ calls[1][Len(calls[1])].test_end = end_date

\* C24: slice_data_by_period leaves the input table unchanged: no step of
\* the slicing changes the rows, their order or their values.
C24_TableUnchanged == [][data' = data]_vars

\* a slicing of a non-empty table returned a train subset that holds some
\* but not all of its rows
C24_Witness ==
    /\ Len(all_slices) >= 1
    /\ \E i \in 1..Len(all_slices[1]) :
          /\ Len(all_slices[1][i].train) >= 1
          /\ Len(all_slices[1][i].train) < Len(data)

\* C25: for every emitted period, every table row with train_start <=
\* timestamp <= test_end is in exactly one of the period's train and test
\* subsets, whatever the time of day of the row.
C25_ExactlyOneSubset ==
    \A ps \in Sliced :
        \A r \in Rows(data) :
            (Key(ps[1].train_start) <= Key(r.Date)
                /\ Key(r.Date) <= Key(ps[1].test_end)) =>
                ((r \in Rows(ps[2].train)) # (r \in Rows(ps[2].test)))

\* the candidates of the first MaxPeriods + 1 cursors start, start + 1
\* month, ...
CandidatesAlongCursor ==
    {Candidate(variant, AddMonthsN(start_date, k)) : k \in 0..MaxPeriods}

\* a call of generate_periods has just returned
JustReturned == pc = "slice" /\ slices = <<>>

\* C26: stopping at the first overrun loses no valid period: the candidate
\* test_end is non-decreasing along the cursor sequence, the returned
\* sequence is exactly the candidates with test_end <= end, and when
\* start <= end the loop exits through the overrun check.
C26_NoValidPeriodLost ==
    /\ [](JustReturned =>
            {periods[i] : i \in 1..Len(periods)} =
                {p \in CandidatesAlongCursor :
                    Key(p.test_end) <= Key(end_date)})
    /\ [](/\ \A i \in 1..(Len(periods) - 1) :
                Key(periods[i].test_end) <= Key(periods[i + 1].test_end)
          /\ (pc \in {"loop", "slice"} /\ periods # <<>>) =>
                Key(periods[Len(periods)].test_end)
                    <= Key(Candidate(variant, current_start).test_end))
    /\ [][(pc = "loop" /\ pc' = "slice"
             /\ Key(start_date) <= Key(end_date)) =>
             /\ InLoop(current_start, end_date)
             /\ Overrun(Candidate(variant, current_start), end_date)]_vars

\* a call with start <= end returned two periods and dropped the candidate
\* of the cursor it stopped at
C26_Witness ==
    /\ JustReturned
    /\ Len(periods) >= 2
    /\ Key(start_date) <= Key(end_date)
    /\ Overrun(Candidate(variant, current_start), end_date)

----------------------------------------------------------------------------
(* calculate_recovery_time: src/scripts/strategy_performance.py ("scripts") *)
(* and src/CODE/Strategy_Performance.py ("CODE")                           *)

RecoveryImpls == {"scripts", "CODE"}

\* the series of rolling_Peak_Recovery_Days flags
RECURSIVE FlagSeries(_)
FlagSeries(n) ==
    IF n = 0 THEN {<<>>}
    ELSE FlagSeries(n - 1)
         \cup {Append(q, f) : q \in {r \in FlagSeries(n - 1) : Len(r) = n - 1},
                              f \in {0, 1}}

\* the value appended for one element: count at a 1; at another value the
\* scripts variant appends the running count and the CODE variant 0
RecoveryAppended(impl, value, count) ==
    IF value = 1 THEN count
    ELSE IF impl = "scripts" THEN count ELSE 0

RecoveryCountNoReset(value, count) == count + 1
\* count = 0 after a 1, count += 1 otherwise
RecoveryCount(value, count) == IF value = 1 THEN 0 ELSE count + 1

\* recovery_times = [], count = 0
InitRecovery ==
    /\ PeriodsOff
    /\ psar = Off /\ ratios = Off /\ assign = Off /\ hourly = Off
    /\ shift = Off
    /\ \E impl \in RecoveryImpls, q \in FlagSeries(MaxSeries) :
          recovery = [stage |-> "loop", impl |-> impl, series |-> q,
                      recovery_times |-> <<>>, count |-> 0]

\* one iteration of "for value in series"
RecoveryStep ==
    /\ recovery.stage = "loop"
    /\ Len(recovery.recovery_times) < Len(recovery.series)
    /\ LET value == recovery.series[Len(recovery.recovery_times) + 1]
       IN  recovery' =
             [recovery EXCEPT
                !.recovery_times =
                    Append(@, RecoveryAppended(recovery.impl, value,
                                               recovery.count)),
                !.count = RecoveryCount(value, @)]
    /\ UNCHANGED <<periodState, psar, ratios, assign, hourly, shift>>

\* return recovery_times
RecoveryReturn ==
    /\ recovery.stage = "loop"
    /\ Len(recovery.recovery_times) = Len(recovery.series)
    /\ recovery' = [recovery EXCEPT !.stage = "returned"]
    /\ UNCHANGED <<periodState, psar, ratios, assign, hourly, shift>>

NextRecovery == RecoveryStep \/ RecoveryReturn

RecoverySpec == InitRecovery /\ [][NextRecovery]_vars

\* the number of consecutive non-1 entries immediately before position i
RECURSIVE RunBefore(_, _)
RunBefore(q, i) ==
    IF i = 1 THEN 0
    ELSE IF q[i - 1] = 1 THEN 0 ELSE 1 + RunBefore(q, i - 1)

\* C22: both variants of calculate_recovery_time return a sequence of the
\* length of the input, whose entry at every position holding a 1 is the
\* number of consecutive non-1 entries immediately before that position.
C22_RecoveryCounts ==
    /\ recovery.stage = "returned" =>
          Len(recovery.recovery_times) = Len(recovery.series)
    /\ recovery.stage # "off" =>
          \A i \in 1..Len(recovery.recovery_times) :
              recovery.series[i] = 1 =>
                  recovery.recovery_times[i] = RunBefore(recovery.series, i)

\* the CODE variant returned for a series with a 1, two other entries and
\* a 1
C22_Witness ==
    /\ recovery.stage = "returned"
    /\ recovery.impl = "CODE"
    /\ recovery.series = <<1, 0, 0, 1>>
    /\ recovery.recovery_times[4] = 2

----------------------------------------------------------------------------
(* calculate_adx_psar, the Parabolic SAR loop:                             *)
(* src/CODE/Underlying_Metrics.py                                          *)

\* acceleration_step = 0.01, as the divisor 1 / 0.01
StepDen == 100

RECURSIVE Pow(_, _)
Pow(b, n) == IF n = 0 THEN 1 ELSE b * Pow(b, n - 1)

\* PSAR values are held as integers in units of 1 / PsarScale of a price
\* unit, which keeps every step of the loop exact
PsarScale == Pow(StepDen, MaxBars - 1)

Prices == {1, 2, 3}

\* the High and Low of a bar
Bars == {b \in [High : Prices, Low : Prices] : b.Low <= b.High}

RECURSIVE BarSeqs(_)
BarSeqs(n) ==
    IF n = 0 THEN {<<>>}
    ELSE BarSeqs(n - 1)
         \cup {Append(q, b) : q \in {r \in BarSeqs(n - 1) : Len(r) = n - 1},
                              b \in Bars}

\* previous_psar + acceleration_step * (previous_extreme - previous_psar)
NewPsar(previous_psar, previous_extreme) ==
    previous_psar
        + ((previous_extreme * PsarScale - previous_psar) \div StepDen)

\* the frame after data['PSAR'] = Close.iloc[0]; data['PSAR_direction'] = 1
InitPsar ==
    /\ PeriodsOff
    /\ recovery = Off /\ ratios = Off /\ assign = Off /\ hourly = Off
    /\ shift = Off
    /\ \E q \in BarSeqs(MaxBars) \ {<<>>} : \E c \in {q[1].Low, q[1].High} :
          psar = [stage |-> "loop", data |-> q, i |-> 2,
                  PSAR |-> [k \in 1..Len(q) |-> c * PsarScale],
                  PSAR_direction |-> [k \in 1..Len(q) |-> 1]]

\* one iteration of "for i in range(1, len(data))"
PsarStep ==
    /\ psar.stage = "loop"
    /\ psar.i <= Len(psar.data)
    /\ LET i == psar.i
           previous_psar == psar.PSAR[i - 1]
           previous_high == psar.data[i - 1].High
           previous_low == psar.data[i - 1].Low
           current_high == psar.data[i].High
           current_low == psar.data[i].Low
           up == NewPsar(previous_psar, previous_high)
           down == NewPsar(previous_psar, previous_low)
       IN  psar' =
             IF psar.PSAR_direction[i - 1] = 1
             THEN IF current_low * PsarScale < up
                  THEN [psar EXCEPT !.PSAR_direction[i] = 0,
                                    !.PSAR[i] = previous_high * PsarScale,
                                    !.i = i + 1]
                  ELSE [psar EXCEPT !.PSAR[i] = up, !.i = i + 1]
             ELSE IF current_high * PsarScale > down
                  THEN [psar EXCEPT !.PSAR_direction[i] = 1,
                                    !.PSAR[i] = previous_low * PsarScale,
                                    !.i = i + 1]
                  ELSE [psar EXCEPT !.PSAR[i] = down, !.i = i + 1]
    /\ UNCHANGED <<periodState, recovery, ratios, assign, hourly, shift>>

\* return data
PsarReturn ==
    /\ psar.stage = "loop"
    /\ psar.i > Len(psar.data)
    /\ psar' = [psar EXCEPT !.stage = "returned"]
    /\ UNCHANGED <<periodState, recovery, ratios, assign, hourly, shift>>

NextPsar == PsarStep \/ PsarReturn

PsarSpec == InitPsar /\ [][NextPsar]_vars

\* the reversal condition at row i: the current low is below the new PSAR
\* in an up-trend, or the current high above it in a down-trend
Reversal(i) ==
    IF psar.PSAR_direction[i - 1] = 1
    THEN psar.data[i].Low * PsarScale
            < NewPsar(psar.PSAR[i - 1], psar.data[i - 1].High)
    ELSE psar.data[i].High * PsarScale
            > NewPsar(psar.PSAR[i - 1], psar.data[i - 1].Low)

\* C21: PSAR_direction at row i equals PSAR_direction at row i - 1 unless
\* the reversal condition fires at row i; a down direction persists over
\* rows without reversal.
C21_DirectionCarried ==
    psar.stage # "off" =>
        \A i \in 2..(psar.i - 1) :
            ~Reversal(i) => psar.PSAR_direction[i] = psar.PSAR_direction[i - 1]

----------------------------------------------------------------------------
(* calculate_ratios: src/CODE/Strategy_Effectiveness.py and                *)
(* src/scripts/strategy_effectiveness.py (same body)                       *)

\* a row of the merged trades frame
TradeRows ==
    [status : {"Open", "Closed"}, updown : {"Up", "Down"},
     Close_Change : {-1, 1}]

RECURSIVE TradeFrames(_)
TradeFrames(n) ==
    IF n = 0 THEN {<<>>}
    ELSE TradeFrames(n - 1)
         \cup {Append(q, r) : q \in {f \in TradeFrames(n - 1) : Len(f) = n - 1},
                              r \in TradeRows}

\* data[data['Up/Down'] == v]
Total(d, v) == SelectSeq(d, LAMBDA r : r.updown = v)

\* data[(data['Trade Status'] == 'Open') & (data['Up/Down'] == v)]
Open(d, v) == SelectSeq(d, LAMBDA r : r.status = "Open" /\ r.updown = v)

\* frame.shape[0]
Shape0(f) == Len(f)

RECURSIVE SumChange(_)
\* frame['Close_Change'].sum()
SumChange(f) ==
    IF f = <<>> THEN 0 ELSE f[1].Close_Change + SumChange(Tail(f))

Abs(x) == IF x < 0 THEN -x ELSE x

\* a / b of Python: ZeroDivisionError for b = 0, else the quotient, held as
\* its numerator and denominator
Div(a, b) ==
    IF b = 0 THEN [kind |-> "ZeroDivisionError", num |-> a, den |-> b]
    ELSE [kind |-> "value", num |-> a, den |-> b]

Unguarded(a, b) == Div(a, b)
\* a / b if b > 0 else None
Guarded(a, b) ==
    IF b > 0 THEN Div(a, b) ELSE [kind |-> "None", num |-> a, den |-> b]

\* the six ratios, in the order of the return statement
RatiosOf(d, is_long) ==
    LET open_up == Shape0(Open(d, "Up"))
        open_down == Shape0(Open(d, "Down"))
        total_up == Shape0(Total(d, "Up"))
        total_down == Shape0(Total(d, "Down"))
        sum_close_up == SumChange(Open(d, "Up"))
        sum_close_down == Abs(SumChange(Open(d, "Down")))
        total_sum_close_up == SumChange(Total(d, "Up"))
        total_sum_close_down == Abs(SumChange(Total(d, "Down")))
    IN  IF is_long
        THEN <<Guarded(open_up, total_up),
               Guarded(open_down, total_down),
               Guarded(open_up, open_up + open_down),
               Guarded(sum_close_up, total_sum_close_up),
               Guarded(sum_close_down, total_sum_close_down),
               Guarded(sum_close_up, sum_close_up + sum_close_down)>>
        ELSE <<Guarded(open_down, total_down),
               Guarded(open_up, total_up),
               Guarded(open_down, open_down + open_up),
               Guarded(sum_close_down, total_sum_close_down),
               Guarded(sum_close_up, total_sum_close_up),
               Guarded(sum_close_down, sum_close_down + sum_close_up)>>

InitRatios ==
    /\ PeriodsOff
    /\ psar = Off /\ recovery = Off /\ assign = Off /\ hourly = Off
    /\ shift = Off
    /\ \E d \in TradeFrames(MaxTrades), l \in BOOLEAN :
          ratios = [stage |-> "called", data |-> d, is_long |-> l,
                    result |-> <<>>]

\* the call calculate_ratios(data, 'Up', 'Down', is_long)
CalculateRatios ==
    /\ ratios.stage = "called"
    /\ ratios' = [ratios EXCEPT
                     !.stage = "returned",
                     !.result = RatiosOf(ratios.data, ratios.is_long)]
    /\ UNCHANGED <<periodState, psar, recovery, assign, hourly, shift>>

NextRatios == CalculateRatios

RatiosSpec == InitRatios /\ [][NextRatios]_vars

\* the rows of the frame with the given direction, open ones only if o
RowsWith(d, v, o) ==
    {i \in 1..Len(d) : d[i].updown = v /\ (o => d[i].status = "Open")}

RECURSIVE SumOver(_, _)
\* the sum of Close_Change over a set of row positions
SumOver(d, I) ==
    IF I = {} THEN 0
    ELSE LET i == CHOOSE x \in I : TRUE
         IN  d[i].Close_Change + SumOver(d, I \ {i})

\* the denominators of the six ratios, from the frame
Denominators(d, is_long) ==
    LET up == Cardinality(RowsWith(d, "Up", FALSE))
        down == Cardinality(RowsWith(d, "Down", FALSE))
        opn == Cardinality(RowsWith(d, "Up", TRUE))
                  + Cardinality(RowsWith(d, "Down", TRUE))
        sup == SumOver(d, RowsWith(d, "Up", FALSE))
        sdown == Abs(SumOver(d, RowsWith(d, "Down", FALSE)))
        sopn == SumOver(d, RowsWith(d, "Up", TRUE))
                   + Abs(SumOver(d, RowsWith(d, "Down", TRUE)))
    IN  IF is_long THEN <<up, down, opn, sup, sdown, sopn>>
        ELSE <<down, up, opn, sdown, sup, sopn>>

\* C23: calculate_ratios never raises, also on an empty frame: each of the
\* six ratios is None exactly when its denominator is not greater than 0,
\* and the count-based ratios (the first three) are otherwise in [0, 1].
C23_RatiosGuarded ==
    ratios.stage = "returned" =>
        \A k \in 1..6 :
            LET r == ratios.result[k]
                den == Denominators(ratios.data, ratios.is_long)[k]
            IN  /\ r.kind # "ZeroDivisionError"
                /\ r.kind = "None" <=> den <= 0
                /\ r.kind = "value" => r.den = den
                /\ (k <= 3 /\ r.kind = "value") =>
                      (0 <= r.num /\ r.num <= r.den)

\* the call returned a precision of 1 next to a precision magnitude that
\* is None because the changes cancel, and a downside ratio that is None
\* for want of Down rows
C23_Witness ==
    /\ ratios.stage = "returned"
    /\ ratios.is_long
    /\ Len(ratios.data) = 2
    /\ ratios.result[1].kind = "value"
    /\ ratios.result[1].num = ratios.result[1].den
    /\ ratios.result[4].kind = "None"
    /\ ratios.result[2].kind = "None"

----------------------------------------------------------------------------
(* StrategyRatiosCalculator.calculate_strategy_ratios, the assignment of   *)
(* ratios to the hourly grid: src/scripts/strategy_effectiveness.py        *)

\* self.start_date, self.initial_end_date, self.final_end_date
GridStart == <<2021, 6, 1, 0>>
InitialEnd == <<2022, 6, 1, 0>>
FinalEnd == <<2024, 1, 1, 0>>

StrategyNames == {"L_EURUSD", "S_EURUSD", "L_GBPUSD"}

\* pd.date_range(start=lo, end=hi, freq='h'): every hour from lo to hi
HourlyRange(lo, hi) ==
    {t \in (lo[1]..hi[1]) \X (1..12) \X (1..31) \X (0..23) :
        /\ t[3] <= DaysInMonth(t[1], t[2])
        /\ Key(lo) <= Key(t)
        /\ Key(t) <= Key(hi)}

hourly_date_range == HourlyRange(GridStart, FinalEnd)

\* the last day of the month of t, at the time of day of t
MonthEndOf(t) == <<t[1], t[2], DaysInMonth(t[1], t[2]), t[4]>>

RECURSIVE MonthEnds(_, _)
\* pd.date_range(start=lo, end=hi, freq='ME'): the month ends from lo to hi
MonthEnds(lo, hi) ==
    IF Key(MonthEndOf(lo)) > Key(hi) THEN <<>>
    ELSE <<MonthEndOf(lo)>>
            \o MonthEnds(AddMonths(<<lo[1], lo[2], 1, lo[4]>>), hi)

month_end_dates == MonthEnds(InitialEnd, FinalEnd)

\* strategy_hourly_df['Date'] <= initial_end_date
FirstYearMask(t) == Key(t) <= Key(InitialEnd)

\* (Date > last_month_end) & (Date < month_end + pd.DateOffset(days=1))
MonthlyMask(t, last_month_end, month_end) ==
    /\ Key(t) > Key(last_month_end)
    /\ Key(t) < Key(AddDay(month_end))

\* trades_df['Strategy'].unique()
StrategyLists ==
    {q \in SeqsUpTo(StrategyNames, MaxStrategies) : Keyed(q) /\ q # <<>>}

\* before the first-year loop; writes lists the .loc assignments made
InitAssign ==
    /\ PeriodsOff
    /\ psar = Off /\ recovery = Off /\ ratios = Off /\ hourly = Off
    /\ shift = Off
    /\ \E q \in StrategyLists :
          assign = [stage |-> "first_year", strategies |-> q, s |-> 1,
                    m |-> 1, last_month_end |-> InitialEnd,
                    writes |-> <<>>]

\* one iteration of the first-year loop over the strategies
FirstYearStep ==
    /\ assign.stage = "first_year"
    /\ assign' =
          [assign EXCEPT
             !.writes = Append(@, [Strategy |-> assign.strategies[assign.s],
                                   step |-> 0,
                                   last_month_end |-> InitialEnd,
                                   month_end |-> InitialEnd]),
             !.s = IF assign.s = Len(assign.strategies) THEN 1 ELSE @ + 1,
             !.stage = IF assign.s = Len(assign.strategies)
                       THEN "monthly" ELSE @]
    /\ UNCHANGED <<periodState, psar, recovery, ratios, hourly, shift>>

\* one iteration of the loop over the strategies within a month end; after
\* the last strategy last_month_end = month_end
MonthlyStep ==
    /\ assign.stage = "monthly"
    /\ assign.m <= Len(month_end_dates)
    /\ assign' =
          [assign EXCEPT
             !.writes = Append(@, [Strategy |-> assign.strategies[assign.s],
                                   step |-> assign.m,
                                   last_month_end |-> assign.last_month_end,
                                   month_end |-> month_end_dates[assign.m]]),
             !.s = IF assign.s = Len(assign.strategies) THEN 1 ELSE @ + 1,
             !.m = IF assign.s = Len(assign.strategies) THEN @ + 1 ELSE @,
             !.last_month_end =
                 IF assign.s = Len(assign.strategies)
                 THEN month_end_dates[assign.m] ELSE @]
    /\ UNCHANGED <<periodState, psar, recovery, ratios, hourly, shift>>

\* the month ends are exhausted: the frame is saved
AssignDone ==
    /\ assign.stage = "monthly"
    /\ assign.m > Len(month_end_dates)
    /\ assign' = [assign EXCEPT !.stage = "done"]
    /\ UNCHANGED <<periodState, psar, recovery, ratios, hourly, shift>>

NextAssign == FirstYearStep \/ MonthlyStep \/ AssignDone

AssignSpec == InitAssign /\ [][NextAssign]_vars

\* the assignment w writes the row (t, its strategy)
Covers(w, t) ==
    IF w.step = 0 THEN FirstYearMask(t)
    ELSE MonthlyMask(t, w.last_month_end, w.month_end)

\* C27: the assignment steps partition the hourly grid: every (hour,
\* strategy) row from start_date to final_end_date is assigned by exactly
\* one step, the first-year step or one monthly step.
C27_GridPartition ==
    assign.stage = "done" =>
        \A i \in 1..Len(assign.strategies) :
            LET mine == {k \in 1..Len(assign.writes) :
                            assign.writes[k].Strategy = assign.strategies[i]}
            IN  \A t \in hourly_date_range :
                    Cardinality({k \in mine : Covers(assign.writes[k], t)}) = 1

----------------------------------------------------------------------------
(* HourlyPnLCalculator.load_data / calculate_hourly_returns for the trades *)
(* of one strategy: src/scripts/pnl_anomaly_fix.py                         *)
(* Times are counted in half hours.                                        *)

TicksPerHour == 2
LastTick == 3
Ticks == 0..LastTick

\* a row of the positions file: open_time <= close_time, and its PnL
Positions ==
    {r \in [open_time : Ticks, close_time : Ticks, net_pnl : {1, 2}] :
        r.open_time <= r.close_time}

\* Timestamp.floor('h') and Timestamp.ceil('h'), as hours
FloorHour(t) == t \div TicksPerHour
CeilHour(t) == (t + TicksPerHour - 1) \div TicksPerHour

\* sort_values(by=['strategy_name', 'open_time']): the rows in the order of
\* open_time, rows of equal open_time in their file order
SortByOpen(q) ==
    CHOOSE r \in [1..Len(q) -> {q[i] : i \in 1..Len(q)}] :
        \E f \in [1..Len(q) -> 1..Len(q)] :
            /\ \A i, j \in 1..Len(q) : i # j => f[i] # f[j]
            /\ \A i \in 1..Len(q) : r[i] = q[f[i]]
            /\ \A i, j \in 1..Len(q) :
                  i < j =>
                     \/ r[i].open_time < r[j].open_time
                     \/ (r[i].open_time = r[j].open_time /\ f[i] < f[j])

RECURSIVE CumSum(_, _)
\* net_pnl_change = net_pnl; net_pnl = cumsum(net_pnl_change)
CumSum(q, acc) ==
    IF q = <<>> THEN <<>>
    ELSE <<[open_time |-> q[1].open_time, close_time |-> q[1].close_time,
            net_pnl_change |-> q[1].net_pnl,
            net_pnl |-> acc + q[1].net_pnl]>>
            \o CumSum(Tail(q), acc + q[1].net_pnl)

\* the minimum and maximum of a column
MinOpen(g) == CHOOSE x \in {g[i].open_time : i \in 1..Len(g)} :
                  \A i \in 1..Len(g) : x <= g[i].open_time
MaxClose(g) == CHOOSE x \in {g[i].close_time : i \in 1..Len(g)} :
                  \A i \in 1..Len(g) : x >= g[i].close_time

\* pd.date_range(start_time, end_time, freq='h'), as hours
HourlyTimes(g) ==
    [k \in 1..(CeilHour(MaxClose(g)) - FloorHour(MinOpen(g)) + 1) |->
        FloorHour(MinOpen(g)) + k - 1]

\* group[group['close_time'] <= time]
ValidTrades(g, time) ==
    SelectSeq(g, LAMBDA r : r.close_time <= time * TicksPerHour)

\* valid_trades.iloc[-1]
LastOfFrame(f) == f[Len(f)]

\* the positions file as read
InitHourly ==
    /\ PeriodsOff
    /\ psar = Off /\ recovery = Off /\ ratios = Off /\ assign = Off
    /\ shift = Off
    /\ \E q \in SeqsUpTo(Positions, MaxPositions) \ {<<>>} :
          hourly = [stage |-> "read", file |-> q, data |-> <<>>,
                    time |-> <<>>, idx |-> 0, last_cumulative |-> 0,
                    net_pnl |-> <<>>, net_pnl_change |-> <<>>]

\* load_data, and the set-up of calculate_hourly_returns for the group
LoadData ==
    /\ hourly.stage = "read"
    /\ LET g == CumSum(SortByOpen(hourly.file), 0)
       IN  hourly' =
             [hourly EXCEPT
                !.stage = "loop", !.data = g, !.time = HourlyTimes(g),
                !.net_pnl = [k \in 1..Len(HourlyTimes(g)) |-> 0],
                !.net_pnl_change = [k \in 1..Len(HourlyTimes(g)) |-> 0]]
    /\ UNCHANGED <<periodState, psar, recovery, ratios, assign, shift>>

\* one iteration of "for idx, time in enumerate(hourly_returns['time'])";
\* idx counts the rows done, row idx + 1 is the current one
HourStep ==
    /\ hourly.stage = "loop"
    /\ hourly.idx < Len(hourly.time)
    /\ LET idx == hourly.idx
           valid_trades == ValidTrades(hourly.data, hourly.time[idx + 1])
       IN  hourly' =
             IF valid_trades # <<>>
             THEN LET last_valid_trade == LastOfFrame(valid_trades)
                      current_cumulative == last_valid_trade.net_pnl
                  IN  [hourly EXCEPT
                         !.net_pnl[idx + 1] = current_cumulative,
                         !.net_pnl_change[idx + 1] =
                             IF idx = 0
                                \/ current_cumulative # hourly.last_cumulative
                             THEN last_valid_trade.net_pnl_change ELSE @,
                         !.last_cumulative = current_cumulative,
                         !.idx = idx + 1]
             ELSE [hourly EXCEPT
                     !.net_pnl[idx + 1] =
                         IF idx > 0 THEN hourly.last_cumulative ELSE @,
                     !.idx = idx + 1]
    /\ UNCHANGED <<periodState, psar, recovery, ratios, assign, shift>>

\* self.results.append(hourly_returns)
HourlyDone ==
    /\ hourly.stage = "loop"
    /\ hourly.idx = Len(hourly.time)
    /\ hourly' = [hourly EXCEPT !.stage = "done"]
    /\ UNCHANGED <<periodState, psar, recovery, ratios, assign, shift>>

NextHourly == LoadData \/ HourStep \/ HourlyDone

HourlySpec == InitHourly /\ [][NextHourly]_vars

RECURSIVE SumPnl(_, _)
\* the sum of the PnL of the rows of q at the positions I
SumPnl(q, I) ==
    IF I = {} THEN 0
    ELSE LET i == CHOOSE x \in I : TRUE
         IN  q[i].net_pnl + SumPnl(q, I \ {i})

\* C28: at each hour t of the grid, net_pnl is the sum of the PnL of
\* exactly the trades with close_time <= t, 0 when there are none.
C28_NetPnlOfClosedTrades ==
    hourly.stage \in {"loop", "done"} =>
        \A k \in 1..hourly.idx :
            hourly.net_pnl[k] =
                SumPnl(hourly.file,
                       {i \in 1..Len(hourly.file) :
                           hourly.file[i].close_time
                               <= hourly.time[k] * TicksPerHour})

RECURSIVE SumTo(_, _)
\* f[1] + ... + f[k]
SumTo(f, k) == IF k = 0 THEN 0 ELSE f[k] + SumTo(f, k - 1)

\* C29: at every hour t the running sum of net_pnl_change over the hours up
\* to t equals net_pnl at t.
C29_RunningSumConsistent ==
    hourly.stage \in {"loop", "done"} =>
        \A k \in 1..hourly.idx :
            SumTo(hourly.net_pnl_change, k) = hourly.net_pnl[k]

----------------------------------------------------------------------------
(* The month shifts of the rank: StrategyAnalyzer.calculate_top_10 /       *)
(* extrapolate_to_hourly (src/scripts/y_var.py) and                        *)
(* PortfolioModeling.shift_and_pivot_results (src/scripts/model.py)        *)
(* A monthly Period is the tuple <<year, month>>.                          *)

\* the number of years of PnL data
MaxPnlYears == 3

\* the months of the PnL data
PnlPeriods == (2021..(2020 + MaxPnlYears)) \X (1..12)

\* Timestamp.to_period('M')
ToPeriod(t) == <<t[1], t[2]>>

PeriodMinusOneSameYear(q) == IF q[2] = 1 THEN <<q[1], 12>> ELSE <<q[1], q[2] - 1>>
\* Period - 1
PeriodMinusOne(q) == IF q[2] = 1 THEN <<q[1] - 1, 12>> ELSE <<q[1], q[2] - 1>>

DigitChars == <<"0", "1", "2", "3", "4", "5", "6", "7", "8", "9">>

Digit(n) == DigitChars[n + 1]

\* x.strftime('%Y-%m'): the text of a Period, one character per element
Strftime(q) ==
    <<Digit(q[1] \div 1000), Digit((q[1] \div 100) % 10),
      Digit((q[1] \div 10) % 10), Digit(q[1] % 10), "-",
      Digit(q[2] \div 10), Digit(q[2] % 10)>>

DigitOf(c) == CHOOSE n \in 0..9 : Digit(n) = c

\* pd.to_datetime(period + '-01 00:00:00+00:00')
ToDatetime(str) ==
    <<DigitOf(str[1]) * 1000 + DigitOf(str[2]) * 100
         + DigitOf(str[3]) * 10 + DigitOf(str[4]),
      DigitOf(str[6]) * 10 + DigitOf(str[7]), 1, 0>>

\* t + MonthEnd(1): the end of the month of t, of the next month when t is
\* a month end already
PlusMonthEnd(t) ==
    IF t[3] < DaysInMonth(t[1], t[2]) THEN MonthEndOf(t)
    ELSE MonthEndOf(AddMonths(<<t[1], t[2], 1, t[4]>>))

\* .replace(hour=23, minute=0, second=0)
ReplaceHour23(t) == <<t[1], t[2], t[3], 23>>

\* .dt.to_period('M').dt.to_timestamp()
ToTimestamp(q) == <<q[1], q[2], 1, 0>>

\* Date.to_period('M').to_timestamp() + pd.DateOffset(months=1)
ShiftedLabel(t) == AddMonths(ToTimestamp(ToPeriod(t)))

\* a rank computed from the PnL of one month
InitShift ==
    /\ PeriodsOff
    /\ psar = Off /\ recovery = Off /\ ratios = Off /\ assign = Off
    /\ hourly = Off
    /\ \E q \in PnlPeriods :
          shift = [stage |-> "ranked", Period |-> q, Shifted_Period |-> <<>>,
                   start_date |-> <<>>, end_date |-> <<>>, Date |-> <<>>,
                   label |-> <<>>]

\* calculate_top_10: Shifted_Period = (Period - 1).strftime('%Y-%m')
CalculateTop10 ==
    /\ shift.stage = "ranked"
    /\ shift' = [shift EXCEPT
                    !.stage = "shifted",
                    !.Shifted_Period = Strftime(PeriodMinusOne(shift.Period))]
    /\ UNCHANGED <<periodState, psar, recovery, ratios, assign, hourly>>

\* extrapolate_to_hourly: the hourly range of the shifted month
ExtrapolateToHourly ==
    /\ shift.stage = "shifted"
    /\ LET sd == ToDatetime(shift.Shifted_Period)
       IN  shift' = [shift EXCEPT
                       !.stage = "hourly",
                       !.start_date = sd,
                       !.end_date = ReplaceHour23(PlusMonthEnd(sd))]
    /\ UNCHANGED <<periodState, psar, recovery, ratios, assign, hourly>>

\* a prediction is made on a test hour that carries the rank
Predict ==
    /\ shift.stage = "hourly"
    /\ \E t \in HourlyRange(shift.start_date, shift.end_date) :
          shift' = [shift EXCEPT !.stage = "predicted", !.Date = t]
    /\ UNCHANGED <<periodState, psar, recovery, ratios, assign, hourly>>

\* shift_and_pivot_results: the label of the prediction
ShiftAndPivot ==
    /\ shift.stage = "predicted"
    /\ shift' = [shift EXCEPT !.stage = "labelled",
                              !.label = ShiftedLabel(shift.Date)]
    /\ UNCHANGED <<periodState, psar, recovery, ratios, assign, hourly>>

NextShift == CalculateTop10 \/ ExtrapolateToHourly \/ Predict \/ ShiftAndPivot

ShiftSpec == InitShift /\ [][NextShift]_vars

\* the number of a month, counted from year 0
MonthNumber(y, m) == 12 * y + (m - 1)

\* C30: the rank of the PnL of month M is attached to the hours of month
\* M - 1, all of them, and a prediction made on such an hour is labelled
\* with the first day of month M, for every M.
C30_ShiftsCancel ==
    /\ shift.stage \in {"hourly", "predicted", "labelled"} =>
          /\ shift.start_date[3] = 1 /\ shift.start_date[4] = 0
          /\ shift.end_date[4] = 23
          /\ shift.end_date[3]
                = DaysInMonth(shift.end_date[1], shift.end_date[2])
          /\ MonthNumber(shift.start_date[1], shift.start_date[2])
                = MonthNumber(shift.Period[1], shift.Period[2]) - 1
          /\ MonthNumber(shift.end_date[1], shift.end_date[2])
                = MonthNumber(shift.Period[1], shift.Period[2]) - 1
    /\ shift.stage \in {"predicted", "labelled"} =>
          MonthNumber(shift.Date[1], shift.Date[2])
              = MonthNumber(shift.Period[1], shift.Period[2]) - 1
    /\ shift.stage = "labelled" =>
          shift.label = <<shift.Period[1], shift.Period[2], 1, 0>>

\* a prediction on the last hour of December, carrying the rank of the
\* January PnL, was labelled
C30_Witness ==
    /\ shift.stage = "labelled"
    /\ shift.Period = <<2022, 1>>
    /\ shift.Date = <<2021, 12, 31, 23>>
    /\ shift.label = <<2022, 1, 1, 0>>

====
